---- MODULE Spec2Model ----
(***************************************************************************)
(* State-machine model of sync-ml-to-shopify.js: one run of the script     *)
(* that reads the storefront catalog, fetches marketplace prices through   *)
(* mlQueue and writes changed prices through shopifyQueue.                 *)
(*                                                                         *)
(* The source file holds two drafts of the script.  "A" is the list-based  *)
(* one (lines 1-223), "B" the priority-then-batch one (lines 225-418).     *)
(* The helper functions are the same in both; the two main flows differ.   *)
(*                                                                         *)
(* Strings are sequences of one-character strings, so that trim, split,    *)
(* parseInt, parseFloat and toString are computed and not assumed.         *)
(* Numbers are fixed-point integers in units of 1/Scale.                   *)
(* Time is counted in whole seconds.                                       *)
(***************************************************************************)
EXTENDS Integers, Sequences, FiniteSets, TLC

\* ------------------------------------------------------------------------
\* Bounds of the model
\* ------------------------------------------------------------------------

\* products the catalog may hold
MaxProducts == 3
\* the clock stops here
MaxTime == 6

\* seconds of the clock of the runs checked for termination
LiveMaxTime == 60
\* SKUs a supplied SKU list may hold, when the list resolution is run on its own
MaxListLen == 3

\* thousandths the marketplace price may lie off the storefront price, when
\* needsUpdate is run on its own
MaxDelta == 25

\* the largest limit, when listVariantsBatch is run on its own
MaxLimit == 6

\* seconds a marketplace request may stay unanswered
MaxLatency == 1
\* products per catalog page.  The source asks for limit=250 (lines 75, 87, 140,
\* 152); the model pages the same way over catalogs of a few products
PageSize == 2
\* runs mlQueue starts per interval.  The source sets intervalCap: 40 (line 19)
IntervalCap == 2
\* length of the interval of mlQueue in seconds.  The source sets interval: 60_000
\* ms (line 19)
IntervalSec == 3

\* ------------------------------------------------------------------------
\* Program constants
\* ------------------------------------------------------------------------

\* new PQueue({ concurrency: 2 })
Concurrency == 2
\* res.headers.get('retry-after') || 5  and  (err.retryAfter || 5)
DefaultRetryAfter == 5
\* process.env.BATCH_SIZE || '200'
DefaultBatchSize == 200
\* fixed-point resolution of the numbers parseFloat yields: three decimals
Scale == 1000

\* ------------------------------------------------------------------------
\* Strings and numbers of JavaScript
\* ------------------------------------------------------------------------

\* null / undefined, as a value comparable with strings
Null == <<"null">>

Digits == <<"0", "1", "2", "3", "4", "5", "6", "7", "8", "9">>

IsDigit(c) == \E i \in 1..10 : Digits[i] = c

DigitVal(c) == (CHOOSE i \in 1..10 : Digits[i] = c) - 1

IsSpace(c) == c = " "

\* a number or NaN
NaN == [nan |-> TRUE, val |-> 0]

Num(x) == [nan |-> FALSE, val |-> x]

RECURSIVE TrimStart(_)
TrimStart(s) ==
    IF s # <<>> /\ IsSpace(Head(s)) THEN TrimStart(Tail(s)) ELSE s

RECURSIVE TrimEnd(_)
TrimEnd(s) ==
    IF s # <<>> /\ IsSpace(s[Len(s)]) THEN TrimEnd(SubSeq(s, 1, Len(s) - 1)) ELSE s

\* String.prototype.trim
Trim(s) == TrimEnd(TrimStart(s))

\* (x || '') for a string or null x
OrEmpty(s) == IF s = Null THEN <<>> ELSE s

RECURSIVE LeadingDigits(_)
LeadingDigits(s) ==
    IF s # <<>> /\ IsDigit(Head(s)) THEN <<Head(s)>> \o LeadingDigits(Tail(s)) ELSE <<>>

RECURSIVE DigitsToNat(_)
DigitsToNat(ds) ==
    IF ds = <<>> THEN 0
    ELSE 10 * DigitsToNat(SubSeq(ds, 1, Len(ds) - 1)) + DigitVal(ds[Len(ds)])

\* parseInt(s, 10): leading blanks, a sign, then the longest run of digits
ParseInt(s) ==
    LET t == TrimStart(s)
        neg == t # <<>> /\ Head(t) = "-"
        u == IF t # <<>> /\ Head(t) \in {"-", "+"} THEN Tail(t) ELSE t
        ds == LeadingDigits(u)
    IN  IF ds = <<>> THEN NaN
        ELSE Num(IF neg THEN 0 - DigitsToNat(ds) ELSE DigitsToNat(ds))

\* the first three decimals of a run of fraction digits, as thousandths
Frac3(fs) ==
    LET d(i) == IF i <= Len(fs) THEN DigitVal(fs[i]) ELSE 0
    IN  100 * d(1) + 10 * d(2) + d(3)

\* parseFloat(s): leading blanks, a sign, digits, a point, digits
ParseFloat(s) ==
    LET t == TrimStart(s)
        neg == t # <<>> /\ Head(t) = "-"
        u == IF t # <<>> /\ Head(t) \in {"-", "+"} THEN Tail(t) ELSE t
        ip == LeadingDigits(u)
        rest == SubSeq(u, Len(ip) + 1, Len(u))
        fp == IF rest # <<>> /\ Head(rest) = "." THEN LeadingDigits(Tail(rest)) ELSE <<>>
        mag == Scale * DigitsToNat(ip) + Frac3(fp)
    IN  IF ip = <<>> /\ fp = <<>> THEN NaN
        ELSE Num(IF neg THEN 0 - mag ELSE mag)

RECURSIVE NatToDigits(_)
NatToDigits(n) ==
    IF n < 10 THEN <<Digits[n + 1]>>
    ELSE NatToDigits(n \div 10) \o <<Digits[(n % 10) + 1]>>

RECURSIVE DropTrailingZeros(_)
DropTrailingZeros(ds) ==
    IF ds # <<>> /\ ds[Len(ds)] = "0" THEN DropTrailingZeros(SubSeq(ds, 1, Len(ds) - 1))
    ELSE ds

\* Number.prototype.toString of the fixed-point number x
NumToString(x) ==
    LET mag == IF x < 0 THEN 0 - x ELSE x
        ip == NatToDigits(mag \div Scale)
        f == mag % Scale
        f3 == <<Digits[(f \div 100) + 1], Digits[((f \div 10) % 10) + 1], Digits[(f % 10) + 1]>>
        fp == DropTrailingZeros(f3)
        body == IF fp = <<>> THEN ip ELSE ip \o <<".">> \o fp
    IN  IF x < 0 THEN <<"-">> \o body ELSE body

\* a value of the marketplace payload: a number, or a string
JsNumber(x) == [num |-> TRUE, val |-> x, str |-> <<>>]

JsString(t) == [num |-> FALSE, val |-> 0, str |-> t]

\* the string a payload value is read as by parseFloat, and given by toString()
ToStr(v) == IF v.num THEN NumToString(v.val) ELSE v.str

\* String.prototype.split on one separator character
RECURSIVE Split(_, _)
Split(s, sep) ==
    IF \A i \in 1..Len(s) : s[i] # sep THEN <<s>>
    ELSE LET k == CHOOSE i \in 1..Len(s) : s[i] = sep /\ \A j \in 1..(i - 1) : s[j] # sep
         IN  <<SubSeq(s, 1, k - 1)>> \o Split(SubSeq(s, k + 1, Len(s)), sep)

\* Array.prototype.map(s => s.trim())
MapTrim(xs) == [i \in 1..Len(xs) |-> Trim(xs[i])]

\* String.prototype.toLowerCase, on the letters the inputs use
ToLowerChar(c) ==
    CASE c = "T" -> "t" [] c = "R" -> "r" [] c = "U" -> "u" [] c = "E" -> "e" [] OTHER -> c

ToLower(s) == [i \in 1..Len(s) |-> ToLowerChar(s[i])]

\* (x || d) for a string or null x: null and '' are falsy
OrDefault(s, d) == IF s = Null \/ s = <<>> THEN d ELSE s

\* ------------------------------------------------------------------------
\* The environment of a run and the module-level constants read from it
\* ------------------------------------------------------------------------

VARIABLES
    env,          \* process.env, the file sku_list.txt and which draft runs
    catalog       \* the storefront's products, in id order

StrTrue == <<"t", "r", "u", "e">>

StrFalse == <<"f", "a", "l", "s", "e">>

\* const BATCH_SIZE = parseInt(process.env.BATCH_SIZE || '200', 10)
BATCH_SIZE == ParseInt(OrDefault(env.BATCH_SIZE, NatToDigits(DefaultBatchSize)))

\* const TEST_SKU = (process.env.TEST_SKU || '').trim()
TEST_SKU == Trim(OrEmpty(env.TEST_SKU))

\* const FULL_SYNC = (process.env.FULL_SYNC || 'false').toLowerCase() === 'true'
FULL_SYNC == ToLower(OrDefault(env.FULL_SYNC, StrFalse)) = StrTrue

NotBlank(s) == s # <<>>

NotComment(s) == s = <<>> \/ Head(s) # "#"

\* readSkuListFile(): no file gives [], else the trimmed lines that are neither
\* empty nor comments
readSkuListFile ==
    IF env.file = Null THEN <<>>
    ELSE SelectSeq(SelectSeq(MapTrim(Split(env.file, "\n")), NotBlank), NotComment)

\* process.env.SKU_LIST.split(',').map(s => s.trim()).filter(Boolean)
envSkuList == SelectSeq(MapTrim(Split(env.SKU_LIST, ",")), NotBlank)

\* mutant: the secret is looked at before the file
sourceSkuList_SecretFirst ==
    IF env.SKU_LIST # Null /\ env.SKU_LIST # <<>> /\ Len(envSkuList) > 0 THEN envSkuList
    ELSE readSkuListFile

\* main of draft A, lines 171-179: the list source, file before secret
sourceSkuList ==
    IF Len(readSkuListFile) > 0 THEN readSkuListFile
    ELSE IF env.SKU_LIST # Null /\ env.SKU_LIST # <<>> THEN envSkuList
    ELSE <<>>

\* mutant: TEST_SKU is put first without being removed from the list
skuList_NoFilter ==
    IF TEST_SKU # <<>> THEN <<TEST_SKU>> \o sourceSkuList ELSE sourceSkuList

\* main of draft A, lines 182-185: TEST_SKU is removed from the list and put first
skuList ==
    IF TEST_SKU # <<>>
    THEN LET NotTest(s) == s # TEST_SKU
         IN  <<TEST_SKU>> \o SelectSeq(sourceSkuList, NotTest)
    ELSE sourceSkuList

\* ------------------------------------------------------------------------
\* The storefront catalog and its read endpoint
\* ------------------------------------------------------------------------

\* the variants of the k-th product of the pool
PoolVariants(k) ==
    CASE k % 3 = 1 -> << [id |-> 100 * k + 1, sku |-> <<"A">>, price |-> <<"1", "0", "0", ".", "0", "0">>] >>
      [] k % 3 = 2 -> << [id |-> 100 * k + 1, sku |-> Null, price |-> <<"5">>],
                         [id |-> 100 * k + 2, sku |-> <<" ", "B", " ">>, price |-> <<"0">>] >>
      [] OTHER     -> << [id |-> 100 * k + 1, sku |-> <<"B">>, price |-> <<"x">>],
                         [id |-> 100 * k + 2, sku |-> <<" ">>, price |-> <<"1">>] >>

PoolProduct(k) == [id |-> 10 * k, variants |-> PoolVariants(k)]

\* the catalogs of the model: the first n products of the pool
Catalogs == { [k \in 1..n |-> PoolProduct(k)] : n \in 0..MaxProducts }

\* GET products.json?limit=250&since_id=s : the next page in id order
RECURSIVE ProductsAfter(_, _)
ProductsAfter(ps, s) ==
    IF ps = <<>> THEN <<>>
    ELSE IF Head(ps).id > s THEN ps ELSE ProductsAfter(Tail(ps), s)

Page(s) ==
    LET rest == ProductsAfter(catalog, s)
    IN  SubSeq(rest, 1, IF Len(rest) < PageSize THEN Len(rest) ELSE PageSize)

\* every (product id, variant) of a list of products, in order
RECURSIVE Flatten(_)
Flatten(ps) ==
    IF ps = <<>> THEN <<>>
    ELSE [j \in 1..Len(Head(ps).variants) |->
            [product |-> Head(ps).id, variant |-> Head(ps).variants[j]]]
         \o Flatten(Tail(ps))

\* ------------------------------------------------------------------------
\* The state of a run
\* ------------------------------------------------------------------------

VARIABLES
    pc,           \* where the main flow is suspended or about to continue
    phase,        \* which loop of main is running: "test", "skus" or "batch"
    skuIdx,       \* position of `for (const sku of skuList)`
    scan,         \* the locals of listVariantsBatch / findVariantsBySku
    work,         \* the entries the running for-loop iterates (batch, matches, found)
    idx,          \* position of `for (const entry of ...)`
    cur,          \* the locals of processVariantEntry
    mlQueue,      \* PQueue({ interval, intervalCap }): buffered and running tasks
    shopifyQueue, \* PQueue({ concurrency }): buffered and running tasks
    mlInFlight,   \* marketplace requests sent and not yet answered (SKUs)
    putInFlight,  \* storefront PUTs sent and not yet answered (variant ids)
    now,          \* the clock, in seconds
    exitCode,     \* -1 while the process runs, then its exit status
    finished,     \* 'Sync finished.' / 'Batch finished' was logged
    readFailed,   \* a catalog page read was answered with a non-success status
    calls,        \* history: variant ids passed to processVariantEntry
    fetchLog,     \* history: marketplace fetches started
    recentStarts, \* history: start times of the fetches of the last IntervalSec seconds
    writeLog,     \* history: storefront PUTs sent
    reads,        \* history: catalog page requests
    scanCalls,    \* history: calls of listVariantsBatch / findVariantsBySku
    last,         \* how the entry that has just returned ended, until the loop steps on
    reply,        \* the answer the entry has just received, until the loop steps on
    probe         \* the result of one function applied on its own, outside a run

\* the state of a run
runVars == <<pc, phase, skuIdx, scan, work, idx, cur, mlQueue, shopifyQueue,
             mlInFlight, putInFlight, now, exitCode, finished, readFailed, calls, fetchLog,
             recentStarts, writeLog, reads, scanCalls, last, reply>>

vars == <<env, catalog, runVars, probe>>

\* ------------------------------------------------------------------------
\* Inputs
\* ------------------------------------------------------------------------

Drafts == {"A", "B"}

FullSyncValues == {Null, <<"T", "r", "u", "e">>}

TestSkuValues == {Null, <<" ", "B">>}

BatchSizeValues == {Null, <<"2">>}

FileValues == {Null, <<"#", "B", "\n", "\n">>, <<" ", "A", "\n", "B">>}

SkuListValues == {Null, <<" ", ",">>, <<"B", ",", "A", ",", "B">>}

\* draft B reads neither sku_list.txt nor SKU_LIST
Environments ==
    { e \in [draft : Drafts, creds : BOOLEAN, FULL_SYNC : FullSyncValues,
             TEST_SKU : TestSkuValues, BATCH_SIZE : BatchSizeValues,
             file : FileValues, SKU_LIST : SkuListValues] :
        /\ e.draft = "B" => e.file = Null /\ e.SKU_LIST = Null
        /\ ~e.creds => /\ e.draft = "A" /\ e.FULL_SYNC = Null /\ e.TEST_SKU = Null
                       /\ e.BATCH_SIZE = Null /\ e.file = Null /\ e.SKU_LIST = Null }

MlPrices == {100500, 105000}

\* the price of a payload: one of the numbers, or a string that is no number
MlPayloadPrices == {JsNumber(p) : p \in MlPrices} \cup {JsString(<<"n", "/", "a">>)}

RetryAfterHeaders == {Null, <<"0">>, <<"2">>, <<"x">>}

\* what the marketplace may answer to GET /items/:id
MlResponses ==
    { [status |-> 200, hasPrice |-> FALSE, price |-> JsNumber(0), retry |-> Null] }
    \cup { [status |-> 200, hasPrice |-> TRUE, price |-> p, retry |-> Null] : p \in MlPayloadPrices }
    \cup { [status |-> 429, hasPrice |-> FALSE, price |-> JsNumber(0), retry |-> h] : h \in RetryAfterHeaders }
    \cup { [status |-> c, hasPrice |-> FALSE, price |-> JsNumber(0), retry |-> Null] : c \in {404, 403, 500} }

NoReply == [from |-> "none", status |-> 0, retry |-> Null, hasPrice |-> FALSE, price |-> JsNumber(0)]

NoScan == [fn |-> "none", limit |-> NaN, target |-> <<>>, results |-> <<>>, since_id |-> 0]

NoLast == [id |-> 0, state |-> "none"]

NoEntry == [id |-> 0, sku |-> <<>>, shopPrice |-> <<>>, slept |-> 0, wait |-> 0]

NoProbe == [fn |-> "none"]

\* the state of a run before main starts
InitRun ==
    /\ pc = "start"
    /\ phase = "init"
    /\ skuIdx = 0
    /\ scan = NoScan
    /\ work = <<>>
    /\ idx = 0
    /\ cur = NoEntry
    /\ mlQueue = [queue |-> <<>>, pending |-> 0, intervalCount |-> 0, intervalEnd |-> 0]
    /\ shopifyQueue = [queue |-> <<>>, pending |-> 0]
    /\ mlInFlight = {}
    /\ putInFlight = {}
    /\ now = 0
    /\ exitCode = -1
    /\ finished = FALSE
    /\ readFailed = FALSE
    /\ calls = <<>>
    /\ fetchLog = <<>>
    /\ recentStarts = <<>>
    /\ writeLog = <<>>
    /\ reads = <<>>
    /\ scanCalls = <<>>
    /\ last = NoLast
    /\ reply = NoReply

Init ==
    /\ env \in Environments
    /\ catalog \in Catalogs
    /\ InitRun
    /\ probe = NoProbe

\* ------------------------------------------------------------------------
\* listVariantsBatch and findVariantsBySku
\* ------------------------------------------------------------------------

\* mutant: the cap is never taken for reached inside a page
CapReached_Off(res, limit) == FALSE

\* (limit > 0) && (results.length >= limit); a NaN limit compares false
CapReached(res, limit) == ~limit.nan /\ limit.val > 0 /\ Len(res) >= limit.val

\* the inner loop of listVariantsBatch: push, then break at the cap
RECURSIVE PushVariants(_, _, _, _)
PushVariants(res, pid, vs, limit) ==
    IF vs = <<>> THEN res
    ELSE LET r2 == Append(res, [product |-> pid, variant |-> Head(vs)])
         IN  IF CapReached(r2, limit) THEN r2 ELSE PushVariants(r2, pid, Tail(vs), limit)

\* the outer loop of listVariantsBatch
RECURSIVE PushProducts(_, _, _)
PushProducts(res, ps, limit) ==
    IF ps = <<>> THEN res
    ELSE LET r2 == PushVariants(res, Head(ps).id, Head(ps).variants, limit)
         IN  IF CapReached(r2, limit) THEN r2 ELSE PushProducts(r2, Tail(ps), limit)

\* the loops of findVariantsBySku: keep the variants whose trimmed sku is the target
\* findVariantsBySku's filter without the .trim() of the variant's SKU
PushMatches_NoTrim(res, ps, targetSku) ==
    LET IsMatch(e) == OrEmpty(e.variant.sku) = targetSku
    IN  res \o SelectSeq(Flatten(ps), IsMatch)

PushMatches(res, ps, targetSku) ==
    LET IsMatch(e) == Trim(OrEmpty(e.variant.sku)) = targetSku
    IN  res \o SelectSeq(Flatten(ps), IsMatch)

\* while ((limit <= 0) || (results.length < limit))  and  while (true)
LoopCond(sc) ==
    \/ sc.fn = "find"
    \/ ~sc.limit.nan /\ sc.limit.val <= 0
    \/ ~sc.limit.nan /\ Len(sc.results) < sc.limit.val

\* draft B, line 405: the TEST_SKU variants are taken out of the batch
\* the scanned batch handed on as it is
filteredBatch_Unfiltered(batch) == batch

filteredBatch(batch) ==
    LET NotTest(e) == Trim(OrEmpty(e.variant.sku)) # TEST_SKU
    IN  IF TEST_SKU # <<>> THEN SelectSeq(batch, NotTest) ELSE batch

\* `return results` / `return matches`: the caller's for-loop starts
ReturnFromScan(res) ==
    /\ work' = IF phase = "batch" /\ env.draft = "B" THEN filteredBatch(res) ELSE res
    /\ idx' = 1
    /\ scan' = NoScan
    /\ pc' = "entries"

\* a call of listVariantsBatch(limit)
CallList(limit) ==
    /\ scan' = [fn |-> "list", limit |-> limit, target |-> <<>>, results |-> <<>>, since_id |-> 0]
    /\ scanCalls' = Append(scanCalls, [fn |-> "list", limit |-> limit, target |-> <<>>])
    /\ pc' = "scan"

\* a call of findVariantsBySku(targetSku)
CallFind(targetSku) ==
    /\ scan' = [fn |-> "find", limit |-> NaN, target |-> targetSku, results |-> <<>>, since_id |-> 0]
    /\ scanCalls' = Append(scanCalls, [fn |-> "find", limit |-> NaN, target |-> targetSku])
    /\ pc' = "scan"

\* the head of the paging loop: request the next page, or return
ScanLoop ==
    /\ pc = "scan"
    /\ IF LoopCond(scan)
       THEN /\ pc' = "get"
            /\ reads' = Append(reads, [fn |-> scan.fn, since_id |-> scan.since_id, at |-> Len(fetchLog)])
            /\ UNCHANGED <<work, idx, scan>>
       ELSE /\ ReturnFromScan(scan.results)
            /\ UNCHANGED reads
    /\ UNCHANGED <<probe, env, catalog, phase, skuIdx, cur, mlQueue, shopifyQueue, mlInFlight,
                   putInFlight, now, exitCode, finished, readFailed, calls, fetchLog, recentStarts,
                   writeLog, scanCalls, last, reply>>

\* shopifyGet answered with res.ok: the body of the paging loop
GetOk ==
    /\ pc = "get"
    /\ LET products == Page(scan.since_id)
           res == IF scan.fn = "list" THEN PushProducts(scan.results, products, scan.limit)
                  ELSE PushMatches(scan.results, products, scan.target)
       IN  IF Len(products) = 0 THEN ReturnFromScan(scan.results)
           ELSE IF Len(products) < PageSize THEN ReturnFromScan(res)
           ELSE /\ scan' = [scan EXCEPT !.results = res, !.since_id = products[Len(products)].id]
                /\ pc' = "scan"
                /\ UNCHANGED <<work, idx>>
    /\ UNCHANGED <<probe, env, catalog, phase, skuIdx, cur, mlQueue, shopifyQueue, mlInFlight,
                   putInFlight, now, exitCode, finished, readFailed, calls, fetchLog, recentStarts,
                   writeLog, reads, scanCalls, last, reply>>

\* mutant: a failed read is taken for an empty page
GetFail_Swallowed ==
    /\ pc = "get"
    /\ readFailed' = TRUE
    /\ ReturnFromScan(scan.results)
    /\ UNCHANGED <<probe, env, catalog, phase, skuIdx, cur, mlQueue, shopifyQueue, mlInFlight,
                   putInFlight, now, exitCode, finished, calls, fetchLog, recentStarts,
                   writeLog, reads, scanCalls, last, reply>>

\* shopifyGet answered with a non-success status: it throws, nothing below main's
\* try catches it
GetFail ==
    /\ pc = "get"
    /\ readFailed' = TRUE
    /\ pc' = "catch"
    /\ UNCHANGED <<probe, env, catalog, phase, skuIdx, scan, work, idx, cur, mlQueue, shopifyQueue,
                   mlInFlight, putInFlight, now, exitCode, finished, calls, fetchLog, recentStarts,
                   writeLog, reads, scanCalls, last, reply>>

\* ------------------------------------------------------------------------
\* needsUpdate and the pieces of processVariantEntry
\* ------------------------------------------------------------------------

Abs(x) == IF x < 0 THEN 0 - x ELSE x

\* mutant: a price that does not parse is read as 0
needsUpdate_NaNAsZero(shopPrice, mlPrice) ==
    LET s == ParseFloat(shopPrice)
        m == ParseFloat(ToStr(mlPrice))
        den == IF s.val = 0 THEN Scale ELSE s.val
    IN  den > 0 /\ 100 * Abs(m.val - s.val) > den

\* mutant: the difference is taken relative to max(s, 1)
needsUpdate_Floor(shopPrice, mlPrice) ==
    LET s == ParseFloat(shopPrice)
        m == ParseFloat(ToStr(mlPrice))
        den == IF s.val < Scale THEN Scale ELSE s.val
    IN  IF m.nan \/ s.nan THEN FALSE
        ELSE 100 * Abs(m.val - s.val) > den

\* needsUpdate(shopPrice, mlPrice): shopPrice is the variant's price string, mlPrice
\* the price value of the marketplace payload (parseFloat reads its string form).
\* diff = |m - s| / (s || 1) > 0.01, in exact arithmetic: a negative s gives a
\* quotient that is never above 0.01
needsUpdate(shopPrice, mlPrice) ==
    LET s == ParseFloat(shopPrice)
        m == ParseFloat(ToStr(mlPrice))
        den == IF s.val = 0 THEN Scale ELSE s.val
    IN  IF m.nan \/ s.nan THEN FALSE
        ELSE den > 0 /\ 100 * Abs(m.val - s.val) > den

\* mutant: the SKU is not trimmed
entrySku_NoTrim(v) == OrEmpty(v.sku)

\* const sku = (v.sku || '').trim()
entrySku(v) == Trim(OrEmpty(v.sku))

\* fetchMlItem on 429: err.retryAfter = parseInt(res.headers.get('retry-after') || 5, 10)
retryAfterOf(header) ==
    ParseInt(OrDefault(header, NatToDigits(DefaultRetryAfter)))

\* mutant: the seconds are not turned into milliseconds
waitOf_Seconds(retryAfter) ==
    IF retryAfter.nan \/ retryAfter.val = 0 THEN DefaultRetryAfter ELSE retryAfter.val

\* the catch of processVariantEntry: const wait = (err.retryAfter || 5) * 1000
waitOf(retryAfter) ==
    (IF retryAfter.nan \/ retryAfter.val = 0 THEN DefaultRetryAfter ELSE retryAfter.val) * 1000

\* mutant: the last branch of the catch throws the error on
Rethrown_Unknown(status) == status \notin {200, 429, 404, 403}

\* the catch of processVariantEntry (lines 121-133) handles every error of the try
\* block: nothing is thrown on to main
Rethrown(status) == FALSE

\* mutant: the write task has no try/catch of its own
PutErrorCaught_Missing == FALSE

\* the try/catch inside the write task (lines 111-116) catches the error of shopifyPut
PutErrorCaught == TRUE

\* processVariantEntry returns: the for-loop moves to the next entry
EntryDone(id, state) ==
    /\ idx' = idx + 1
    /\ cur' = NoEntry
    /\ last' = [id |-> id, state |-> state]
    /\ pc' = "entries"

\* ------------------------------------------------------------------------
\* main
\* ------------------------------------------------------------------------

\* mutant: FULL_SYNC scans with the batch size
fullSyncLimit_Batch == BATCH_SIZE

\* FULL_SYNC scans with `const limit = 0` (draft A) and `FULL_SYNC ? 0 : ...` (draft B)
fullSyncLimit == Num(0)

\* the limit draft B scans with: FULL_SYNC ? 0 : BATCH_SIZE
limitB == IF FULL_SYNC THEN fullSyncLimit ELSE BATCH_SIZE

\* the branch of main taken once the credentials are there
StartPlan ==
    IF env.draft = "A"
    THEN IF FULL_SYNC
         THEN /\ phase' = "batch" /\ CallList(fullSyncLimit) /\ UNCHANGED skuIdx
         ELSE IF Len(skuList) > 0
         THEN /\ phase' = "skus" /\ skuIdx' = 1 /\ pc' = "skus"
              /\ UNCHANGED <<scan, scanCalls>>
         ELSE /\ phase' = "batch" /\ CallList(BATCH_SIZE) /\ UNCHANGED skuIdx
    ELSE IF TEST_SKU # <<>>
         THEN /\ phase' = "test" /\ CallFind(TEST_SKU) /\ UNCHANGED skuIdx
         ELSE /\ phase' = "batch" /\ CallList(limitB) /\ UNCHANGED skuIdx

\* the start of main: the credentials check, then the plan
Start ==
    /\ pc = "start"
    /\ IF ~env.creds
       THEN /\ exitCode' = 1
            /\ pc' = "exited"
            /\ UNCHANGED <<phase, skuIdx, scan, scanCalls>>
       ELSE /\ StartPlan
            /\ UNCHANGED exitCode
    /\ UNCHANGED <<probe, env, catalog, work, idx, cur, mlQueue, shopifyQueue, mlInFlight,
                   putInFlight, now, finished, readFailed, calls, fetchLog, recentStarts, writeLog,
                   reads, last, reply>>

\* draft A, `for (const sku of skuList)`: look the next SKU up, or leave the loop
SkusLoop ==
    /\ pc = "skus"
    /\ IF skuIdx > Len(skuList)
       THEN /\ pc' = "onIdle"
            /\ UNCHANGED <<scan, scanCalls>>
       ELSE CallFind(skuList[skuIdx])
    /\ UNCHANGED <<probe, env, catalog, phase, skuIdx, work, idx, cur, mlQueue, shopifyQueue,
                   mlInFlight, putInFlight, now, exitCode, finished, readFailed, calls,
                   fetchLog, recentStarts, writeLog, reads, last, reply>>

\* what follows a finished `for (const entry of ...)` loop
AfterEntries ==
    CASE phase = "skus" ->
            /\ skuIdx' = skuIdx + 1 /\ pc' = "skus"
            /\ UNCHANGED <<phase, scan, scanCalls>>
      [] phase = "test" ->
            /\ phase' = "batch" /\ CallList(limitB) /\ UNCHANGED skuIdx
      [] OTHER ->
            /\ pc' = "onIdle"
            /\ UNCHANGED <<phase, skuIdx, scan, scanCalls>>

\* mlQueue.add(() => fetchMlItem(sku)): the task is handed to the queue
SubmitFetch(v) ==
    /\ mlQueue' = [mlQueue EXCEPT !.queue = Append(@, [id |-> v.id, sku |-> entrySku(v)])]
    /\ cur' = [NoEntry EXCEPT !.id = v.id, !.sku = entrySku(v), !.shopPrice = v.price]
    /\ pc' = "awaitFetch"

\* the head of `for (const entry of ...)`, and processVariantEntry up to its first await
EntriesLoop ==
    /\ pc = "entries"
    /\ IF idx > Len(work)
       THEN /\ AfterEntries
            /\ last' = NoLast
            /\ UNCHANGED <<idx, cur, mlQueue, calls>>
       ELSE LET v == work[idx].variant
            IN  /\ calls' = Append(calls, v.id)
                /\ IF entrySku(v) = <<>>
                   THEN /\ EntryDone(v.id, "Skipped")
                        /\ UNCHANGED mlQueue
                   ELSE /\ SubmitFetch(v)
                        /\ last' = NoLast
                        /\ UNCHANGED idx
                /\ UNCHANGED <<phase, skuIdx, scan, scanCalls>>
    /\ reply' = NoReply
    /\ UNCHANGED <<probe, env, catalog, work, shopifyQueue, mlInFlight, putInFlight, now, exitCode,
                   finished, readFailed, fetchLog, recentStarts, writeLog, reads>>

\* ------------------------------------------------------------------------
\* The two queues, the marketplace, the storefront write endpoint, the clock
\* ------------------------------------------------------------------------

\* an interval count that is never reset when the interval ends
IntervalCount_NoReset == mlQueue.intervalCount

\* the runs mlQueue has started in the interval that is open now
IntervalCount == IF now < mlQueue.intervalEnd THEN mlQueue.intervalCount ELSE 0

\* intervalCap: mlQueue starts a task only while the open interval has runs left
IntervalAllows == IntervalCount < IntervalCap

\* mlQueue starts its next task: fetchMlItem sends GET /items/:sku
mlQueueNext ==
    /\ mlQueue.queue # <<>>
    /\ IntervalAllows
    /\ LET task == Head(mlQueue.queue)
       IN  /\ mlQueue' = [queue |-> Tail(mlQueue.queue),
                          pending |-> mlQueue.pending + 1,
                          intervalCount |-> IntervalCount + 1,
                          intervalEnd |-> IF now < mlQueue.intervalEnd THEN mlQueue.intervalEnd
                                          ELSE now + IntervalSec]
           /\ mlInFlight' = mlInFlight \cup {[id |-> task.id, sku |-> task.sku, at |-> now]}
           /\ fetchLog' = Append(fetchLog, [id |-> task.id, sku |-> task.sku])
           /\ recentStarts' = Append(recentStarts, now)
    /\ UNCHANGED <<probe, env, catalog, pc, phase, skuIdx, scan, work, idx, cur, shopifyQueue,
                   putInFlight, now, exitCode, finished, readFailed, calls, writeLog,
                   reads, scanCalls, last, reply>>

\* mutant: shopifyPut is called directly, not through shopifyQueue
SubmitWrite_Direct(mlPrice) ==
    /\ putInFlight' = putInFlight \cup {cur.id}
    /\ writeLog' = Append(writeLog, [id |-> cur.id, price |-> ToStr(mlPrice),
                                     fetched |-> Len(fetchLog)])
    /\ last' = [id |-> cur.id, state |-> "UpdateNeeded"]
    /\ pc' = "awaitWrite"
    /\ UNCHANGED <<idx, cur, shopifyQueue>>

\* mutant: the body of the PUT carries the variant's own price
\* the write task is queued and the entry loop goes on without awaiting it
SubmitWrite_NoAwait(mlPrice) ==
    /\ shopifyQueue' = [shopifyQueue EXCEPT
                          !.queue = Append(@, [id |-> cur.id, price |-> ToStr(mlPrice)])]
    /\ EntryDone(cur.id, "UpdateNeeded")
    /\ UNCHANGED <<putInFlight, writeLog>>

SubmitWrite_OwnPrice(mlPrice) ==
    /\ shopifyQueue' = [shopifyQueue EXCEPT
                          !.queue = Append(@, [id |-> cur.id, price |-> cur.shopPrice])]
    /\ last' = [id |-> cur.id, state |-> "UpdateNeeded"]
    /\ pc' = "awaitWrite"
    /\ UNCHANGED <<idx, cur, putInFlight, writeLog>>

\* shopifyQueue.add(async () => { ... }): the write task is handed to the queue
SubmitWrite(mlPrice) ==
    /\ shopifyQueue' = [shopifyQueue EXCEPT
                          !.queue = Append(@, [id |-> cur.id, price |-> ToStr(mlPrice)])]
    /\ last' = [id |-> cur.id, state |-> "UpdateNeeded"]
    /\ pc' = "awaitWrite"
    /\ UNCHANGED <<idx, cur, putInFlight, writeLog>>

\* the marketplace answers; the fetch task settles and processVariantEntry goes on
MlRespond(r) ==
    /\ pc = "awaitFetch"
    /\ \E task \in mlInFlight :
        /\ task.id = cur.id
        /\ mlInFlight' = mlInFlight \ {task}
        /\ mlQueue' = [mlQueue EXCEPT !.pending = @ - 1]
        /\ reply' = [from |-> "ml", status |-> r.status, retry |-> r.retry,
                     hasPrice |-> r.hasPrice, price |-> r.price]
        /\ CASE r.status = 200 ->
                  IF ~r.hasPrice
                  THEN /\ EntryDone(cur.id, "NoPriceAvailable")
                       /\ UNCHANGED <<shopifyQueue, putInFlight, writeLog>>
                  ELSE IF needsUpdate(cur.shopPrice, r.price)
                  THEN SubmitWrite(r.price)
                  ELSE /\ EntryDone(cur.id, "NoChange")
                       /\ UNCHANGED <<shopifyQueue, putInFlight, writeLog>>
             [] Rethrown(r.status) ->
                  /\ pc' = "catch"
                  /\ UNCHANGED <<idx, cur, last, shopifyQueue, putInFlight, writeLog>>
             [] r.status = 429 ->
                  /\ cur' = [cur EXCEPT !.slept = now, !.wait = waitOf(retryAfterOf(r.retry))]
                  /\ last' = [id |-> cur.id, state |-> "RateLimited"]
                  /\ pc' = "sleep"
                  /\ UNCHANGED <<idx, shopifyQueue, putInFlight, writeLog>>
             [] r.status = 404 ->
                  /\ EntryDone(cur.id, "NotFound")
                  /\ UNCHANGED <<shopifyQueue, putInFlight, writeLog>>
             [] r.status = 403 ->
                  /\ EntryDone(cur.id, "Forbidden")
                  /\ UNCHANGED <<shopifyQueue, putInFlight, writeLog>>
             [] OTHER ->
                  /\ EntryDone(cur.id, "OtherError")
                  /\ UNCHANGED <<shopifyQueue, putInFlight, writeLog>>
    /\ UNCHANGED <<probe, env, catalog, phase, skuIdx, scan, work, now, exitCode, finished,
                   readFailed, calls, fetchLog, recentStarts, reads, scanCalls>>

\* setTimeout(r, wait) fires: the rate-limited entry is done
SleepDone ==
    /\ pc = "sleep"
    /\ (now - cur.slept) * 1000 >= cur.wait
    /\ EntryDone(cur.id, "Waited")
    /\ UNCHANGED <<probe, env, catalog, phase, skuIdx, scan, work, mlQueue, shopifyQueue, mlInFlight,
                   putInFlight, now, exitCode, finished, readFailed, calls, fetchLog,
                   recentStarts, writeLog, reads, scanCalls, reply>>

\* mutant: the task does not await shopifyPut, so it settles as soon as the PUT is
\* sent and processVariantEntry returns
shopifyQueueNext_NoAwait ==
    /\ pc = "awaitWrite"
    /\ shopifyQueue.queue # <<>>
    /\ shopifyQueue.pending < Concurrency
    /\ LET task == Head(shopifyQueue.queue)
       IN  /\ shopifyQueue' = [shopifyQueue EXCEPT !.queue = Tail(@)]
           /\ putInFlight' = putInFlight \cup {task.id}
           /\ writeLog' = Append(writeLog, [id |-> task.id, price |-> task.price,
                                            fetched |-> Len(fetchLog)])
    /\ EntryDone(cur.id, "Written")
    /\ UNCHANGED <<probe, env, catalog, phase, skuIdx, scan, work, mlQueue, mlInFlight, now,
                   exitCode, finished, readFailed, calls, fetchLog, recentStarts, reads,
                   scanCalls, reply>>

\* shopifyQueue starts its next task: the task builds the body and shopifyPut sends
\* the PUT, which the task awaits
shopifyQueueNext ==
    /\ shopifyQueue.queue # <<>>
    /\ shopifyQueue.pending < Concurrency
    /\ LET task == Head(shopifyQueue.queue)
       IN  /\ shopifyQueue' = [queue |-> Tail(shopifyQueue.queue),
                               pending |-> shopifyQueue.pending + 1]
           /\ putInFlight' = putInFlight \cup {task.id}
           /\ writeLog' = Append(writeLog, [id |-> task.id, price |-> task.price,
                                            fetched |-> Len(fetchLog)])
    /\ UNCHANGED <<probe, env, catalog, pc, phase, skuIdx, scan, work, idx, cur, mlQueue,
                   mlInFlight, now, exitCode, finished, readFailed, calls, fetchLog,
                   recentStarts, reads, scanCalls, last, reply>>

\* the storefront answers the PUT; the write task settles and processVariantEntry returns
PutRespond(ok) ==
    /\ pc = "awaitWrite"
    /\ cur.id \in putInFlight
    /\ putInFlight' = putInFlight \ {cur.id}
    /\ shopifyQueue' = [shopifyQueue EXCEPT !.pending = @ - 1]
    /\ reply' = [from |-> "put", status |-> IF ok THEN 200 ELSE 422, retry |-> Null,
                 hasPrice |-> FALSE, price |-> JsNumber(0)]
    /\ IF ok THEN EntryDone(cur.id, "Written")
       ELSE IF PutErrorCaught THEN EntryDone(cur.id, "WriteFailed")
       ELSE IF Rethrown(0) THEN pc' = "catch" /\ UNCHANGED <<idx, cur, last>>
       ELSE EntryDone(cur.id, "OtherError")
    /\ UNCHANGED <<probe, env, catalog, phase, skuIdx, scan, work, mlQueue, mlInFlight, now,
                   exitCode, finished, readFailed, calls, fetchLog, recentStarts, writeLog,
                   reads, scanCalls>>

\* a queue has neither a buffered nor a running task
IsIdle(q) == q.queue = <<>> /\ q.pending = 0

\* await mlQueue.onIdle(); await shopifyQueue.onIdle(); then the completion line.
\* The process then ends by itself, with status 0
OnIdle ==
    /\ pc = "onIdle"
    /\ IsIdle(mlQueue)
    /\ IsIdle(shopifyQueue)
    /\ finished' = TRUE
    /\ exitCode' = 0
    /\ pc' = "exited"
    /\ UNCHANGED <<probe, env, catalog, phase, skuIdx, scan, work, idx, cur, mlQueue, shopifyQueue,
                   mlInFlight, putInFlight, now, readFailed, calls, fetchLog, recentStarts, writeLog,
                   reads, scanCalls, last, reply>>

\* catch (err) { console.error('Fatal', err); process.exit(1); }
Catch ==
    /\ pc = "catch"
    /\ exitCode' = 1
    /\ pc' = "exited"
    /\ UNCHANGED <<probe, env, catalog, phase, skuIdx, scan, work, idx, cur, mlQueue, shopifyQueue,
                   mlInFlight, putInFlight, now, finished, readFailed, calls, fetchLog, recentStarts,
                   writeLog, reads, scanCalls, last, reply>>

\* a second passes while a marketplace request is out, a task waits for the
\* interval, or the flow sleeps.  Catalog reads and PUTs are answered within the
\* second they were sent in
Tick ==
    /\ now < MaxTime
    /\ \/ pc = "sleep"
       \/ \E task \in mlInFlight : now - task.at < MaxLatency
       \/ mlQueue.queue # <<>> /\ ~IntervalAllows
    /\ now' = now + 1
    /\ recentStarts' = SelectSeq(recentStarts, LAMBDA t : now + 1 - t < IntervalSec)
    /\ UNCHANGED <<probe, env, catalog, pc, phase, skuIdx, scan, work, idx, cur, mlQueue,
                   shopifyQueue, mlInFlight, putInFlight, exitCode, finished, readFailed,
                   calls, fetchLog, writeLog, reads, scanCalls, last, reply>>

Next ==
    \/ Start
    \/ SkusLoop
    \/ ScanLoop
    \/ GetOk
    \/ GetFail
    \/ EntriesLoop
    \/ mlQueueNext
    \/ \E r \in MlResponses : MlRespond(r)
    \/ SleepDone
    \/ shopifyQueueNext
    \/ \E ok \in BOOLEAN : PutRespond(ok)
    \/ OnIdle
    \/ Catch
    \/ Tick

Spec == Init /\ [][Next]_vars

\* ------------------------------------------------------------------------
\* What a run is expected to process
\* ------------------------------------------------------------------------

\* every entry of the catalog, in catalog order
AllEntries == Flatten(catalog)

VariantIds(es) == [i \in 1..Len(es) |-> es[i].variant.id]

SeqRange(xs) == {xs[i] : i \in 1..Len(xs)}

Take(xs, n) == SubSeq(xs, 1, IF n < Len(xs) THEN n ELSE Len(xs))

\* the variants without a usable SKU
BlankIds == {e.variant.id : e \in {x \in SeqRange(AllEntries) : Trim(OrEmpty(x.variant.sku)) = <<>>}}

\* the entries whose trimmed SKU is sku
MatchesOf(sku) == SelectSeq(AllEntries, LAMBDA e : Trim(OrEmpty(e.variant.sku)) = sku)

\* the first entries of the catalog up to a limit; 0 and below mean all
ScannedTo(limit) ==
    IF limit.nan THEN <<>>
    ELSE IF limit.val <= 0 THEN AllEntries ELSE Take(AllEntries, limit.val)

RECURSIVE MatchesOfAll(_)
MatchesOfAll(skus) ==
    IF skus = <<>> THEN <<>> ELSE MatchesOf(Head(skus)) \o MatchesOfAll(Tail(skus))

\* the entries a run hands to processVariantEntry when no catalog read fails
ExpectedWork ==
    IF env.draft = "A"
    THEN IF FULL_SYNC THEN AllEntries
         ELSE IF Len(skuList) > 0 THEN MatchesOfAll(skuList)
         ELSE ScannedTo(BATCH_SIZE)
    ELSE (IF TEST_SKU # <<>> THEN MatchesOf(TEST_SKU) ELSE <<>>)
         \o SelectSeq(ScannedTo(IF FULL_SYNC THEN Num(0) ELSE BATCH_SIZE),
                      LAMBDA e : TEST_SKU = <<>> \/ Trim(OrEmpty(e.variant.sku)) # TEST_SKU)

\* the only ways a run ends with a non-zero status
FatalOnlyByReadOrCredentials == exitCode = 1 => readFailed \/ ~env.creds

\* a run that reports completion has handed every entry of its working set to
\* processVariantEntry and ends with status 0
CompletionCoversWorkingSet == finished => exitCode = 0 /\ calls = VariantIds(ExpectedWork)

\* this step is the marketplace's answer to the fetch the flow awaits
FetchAnswered == pc = "awaitFetch" /\ mlInFlight # {} /\ mlInFlight' = {}

\* this step is the storefront's answer to the PUT the flow awaits
PutAnswered == pc = "awaitWrite" /\ putInFlight # {} /\ putInFlight' = {}

\* ------------------------------------------------------------------------
\* Claims
\* ------------------------------------------------------------------------

\* C1: an entry whose SKU is missing, empty or whitespace-only is never fetched and
\* never written: no fetch task and no fetch ever carries an empty or blank SKU, and
\* no write task and no PUT ever targets a variant whose trimmed SKU is empty.
C1_BlankSkuNeverDispatched ==
    LET blank == BlankIds
    IN  /\ \A i \in 1..Len(fetchLog) :
              /\ Trim(fetchLog[i].sku) # <<>>
              /\ fetchLog[i].id \notin blank
        /\ \A i \in 1..Len(mlQueue.queue) :
              /\ Trim(mlQueue.queue[i].sku) # <<>>
              /\ mlQueue.queue[i].id \notin blank
        /\ \A i \in 1..Len(writeLog) : writeLog[i].id \notin blank
        /\ \A i \in 1..Len(shopifyQueue.queue) : shopifyQueue.queue[i].id \notin blank

\* C1 witness: a run that was handed a variant without SKU, fetched for others, and
\* finished.
C1_Witness ==
    /\ finished
    /\ \E i \in 1..Len(calls) : calls[i] \in BlankIds
    /\ Len(fetchLog) > 0
    /\ Len(fetchLog) < Len(calls)

\* C2: a marketplace answer 404, 403 or any other non-success status (429 apart)
\* ends the entry there: no write task is queued, no PUT is sent, the error does not
\* reach main (the loop goes on with the next entry), a run ends with a non-zero
\* status only after a failed catalog read or without credentials, and a run that
\* completes has processed its whole working set and ends with status 0.
C2_FetchFailureIsolated ==
    /\ []FatalOnlyByReadOrCredentials
    /\ []CompletionCoversWorkingSet
    /\ [][FetchAnswered /\ reply'.status \notin {200, 429}
            => /\ pc' = "entries"
               /\ idx' = idx + 1
               /\ last'.state \in {"NotFound", "Forbidden", "OtherError"}
               /\ shopifyQueue' = shopifyQueue
               /\ putInFlight' = putInFlight
               /\ writeLog' = writeLog
               /\ exitCode' = -1]_vars

\* C2 witness: the second fetch of a run has just failed with 404, 403 or another
\* error, and the loop stands at a further entry of the working set.
C2_Witness ==
    /\ pc = "entries"
    /\ reply.from = "ml"
    /\ reply.status \in {404, 403, 500}
    /\ last.state \in {"NotFound", "Forbidden", "OtherError"}
    /\ Len(fetchLog) >= 2
    /\ idx <= Len(work)

\* C3: a failed PUT is caught inside the write task: the entry ends as WriteFailed,
\* the loop goes on with the next entry, a run ends with a non-zero status only
\* after a failed catalog read or without credentials, and a run that completes has
\* processed its whole working set and ends with status 0.
C3_WriteFailureIsolated ==
    /\ []FatalOnlyByReadOrCredentials
    /\ []CompletionCoversWorkingSet
    /\ [][PutAnswered /\ reply'.status # 200
            => /\ pc' = "entries"
               /\ idx' = idx + 1
               /\ last' = [id |-> cur.id, state |-> "WriteFailed"]
               /\ exitCode' = -1]_vars

\* C3 witness: the PUT of an entry has just failed, the entry ended as WriteFailed,
\* and the loop stands at a further entry of the working set.
C3_Witness ==
    /\ pc = "entries"
    /\ reply.from = "put"
    /\ reply.status # 200
    /\ last.state = "WriteFailed"
    /\ idx <= Len(work)

\* C4: once a catalog page read failed, nothing more is requested: no further page
\* read (no retry), no fetch, no write; nothing is pending at that moment; and the
\* run ends with status 1 without reporting completion.
C4_ReadFailureFatal ==
    /\ [](readFailed => /\ pc \in {"catch", "exited"}
                        /\ IsIdle(mlQueue) /\ IsIdle(shopifyQueue)
                        /\ mlInFlight = {} /\ putInFlight = {}
                        /\ ~finished
                        /\ (pc = "exited" => exitCode = 1))
    /\ [][readFailed => /\ reads' = reads
                        /\ fetchLog' = fetchLog
                        /\ writeLog' = writeLog
                        /\ mlQueue' = mlQueue
                        /\ shopifyQueue' = shopifyQueue
                        /\ calls' = calls]_vars

\* C4 witness: in explicit-list mode a lookup failed after an earlier SKU was
\* processed, and the run ended with status 1.
C4_Witness ==
    /\ readFailed
    /\ phase = "skus"
    /\ skuIdx > 1
    /\ Len(fetchLog) > 0
    /\ exitCode = 1

\* the wait the code derives from a retry-after header: R * 1000 ms when the header
\* starts with a positive integer R, and 5000 ms when the header is absent, empty,
\* zero or not a number
AmendedWait(header) ==
    LET r == IF header = Null \/ header = <<>> THEN Num(DefaultRetryAfter) ELSE ParseInt(header)
    IN  IF r.nan \/ r.val = 0 THEN DefaultRetryAfter * 1000 ELSE r.val * 1000

\* a retry-after header that is absent or a plain number of seconds
PlainRetryAfter(header) ==
    header = Null \/ (header # <<>> /\ \A i \in 1..Len(header) : IsDigit(header[i]))

\* C5 as stated: on a 429 carrying retry-after = R seconds (5 when the response
\* carries none) the flow suspends for R * 1000 ms.
C5_SleepsRetryAfter ==
    [][FetchAnswered /\ reply'.status = 429 /\ PlainRetryAfter(reply'.retry)
         => cur'.wait = 1000 * (IF reply'.retry = Null THEN DefaultRetryAfter
                                ELSE DigitsToNat(reply'.retry))]_vars

\* C5 amended: on a 429 the flow suspends for R * 1000 ms when retry-after parses to
\* a positive integer R and for 5000 ms when the header is absent, empty, zero or
\* not a number; while it sleeps nothing is queued, running or sent; the sleep ends
\* no earlier than the wait; then the entry is done (Waited) and the loop moves to
\* the next entry without submitting the fetch again; no write is queued or sent
\* for the entry.
C5_SleepsAmendedWait ==
    /\ [][FetchAnswered /\ reply'.status = 429
            => /\ pc' = "sleep"
               /\ cur'.wait = AmendedWait(reply'.retry)
               /\ cur'.slept = now
               /\ shopifyQueue' = shopifyQueue
               /\ putInFlight' = putInFlight
               /\ writeLog' = writeLog]_vars
    /\ [](pc = "sleep" => /\ IsIdle(mlQueue) /\ IsIdle(shopifyQueue)
                          /\ mlInFlight = {} /\ putInFlight = {}
                          /\ reply.status = 429
                          /\ cur.wait = AmendedWait(reply.retry))
    /\ [][pc = "sleep"
            => /\ fetchLog' = fetchLog
               /\ writeLog' = writeLog
               /\ mlQueue' = mlQueue
               /\ shopifyQueue' = shopifyQueue
               /\ calls' = calls
               /\ pc' # "sleep" => /\ (now - cur.slept) * 1000 >= AmendedWait(reply.retry)
                                   /\ pc' = "entries"
                                   /\ idx' = idx + 1
                                   /\ last' = [id |-> cur.id, state |-> "Waited"]]_vars

\* C5 witness: an entry was rate-limited with retry-after: 2, the flow has slept,
\* and the loop stands at a further entry of the working set, two seconds later at
\* least, with no write made.
C5_Witness ==
    /\ pc = "entries"
    /\ last.state = "Waited"
    /\ reply.status = 429
    /\ reply.retry = <<"2">>
    /\ now >= 2
    /\ idx <= Len(work)
    /\ writeLog = <<>>

\* C6: completion is reported only when both queues hold no buffered and no running
\* task and no request of either kind is unanswered.
C6_FinishedOnlyWhenIdle ==
    finished => /\ IsIdle(mlQueue)
                /\ IsIdle(shopifyQueue)
                /\ mlInFlight = {}
                /\ putInFlight = {}

\* C6 witness: a finished run that fetched twice and wrote.
C6_Witness == finished /\ Len(fetchLog) >= 2 /\ Len(writeLog) >= 1

\* C8: at most Concurrency PUTs are unanswered, the write queue runs at most
\* Concurrency tasks, and every unanswered PUT belongs to a running task of the
\* write queue.
C8_WritesThroughQueue ==
    /\ Cardinality(putInFlight) <= Concurrency
    /\ shopifyQueue.pending <= Concurrency
    /\ Cardinality(putInFlight) <= shopifyQueue.pending

\* C8 witness: a PUT is out, as the running task of the write queue.
C8_Witness == Cardinality(putInFlight) = 1 /\ shopifyQueue.pending = 1

\* C7 as stated: in every rolling interval of IntervalSec seconds at most IntervalCap
\* marketplace fetches are started.
C7_RollingWindow == Len(recentStarts) <= IntervalCap

\* the SKU list of the secondary source, [] when SKU_LIST is unset or empty
SecondaryList == IF env.SKU_LIST = Null \/ env.SKU_LIST = <<>> THEN <<>> ELSE envSkuList

FindCalls(skus) == [i \in 1..Len(skus) |-> [fn |-> "find", limit |-> NaN, target |-> skus[i]]]

ListCall(limit) == <<[fn |-> "list", limit |-> limit, target |-> <<>>]>>

\* the list with the priority SKU taken out and put first, when one is configured
PriorityFirst(skus) ==
    IF TEST_SKU = <<>> THEN skus
    ELSE <<TEST_SKU>> \o SelectSeq(skus, LAMBDA x : x # TEST_SKU)

IsPrefix(xs, ys) == Len(xs) <= Len(ys) /\ xs = SubSeq(ys, 1, Len(xs))

\* C9 as stated, for the list-based draft: full scan with the flag; else exactly the
\* file's SKUs; else exactly the secondary list's SKUs; else a bounded scan.
C9_PlanAsStated ==
    finished /\ env.draft = "A"
    => scanCalls =
         IF FULL_SYNC THEN ListCall(Num(0))
         ELSE IF Len(readSkuListFile) > 0 THEN FindCalls(readSkuListFile)
         ELSE IF Len(SecondaryList) > 0 THEN FindCalls(SecondaryList)
         ELSE ListCall(BATCH_SIZE)

\* the calls the plan of the list-based draft consists of
C9_Plan ==
    IF FULL_SYNC THEN ListCall(Num(0))
    ELSE IF Len(readSkuListFile) > 0 THEN FindCalls(PriorityFirst(readSkuListFile))
    ELSE IF Len(SecondaryList) > 0 THEN FindCalls(PriorityFirst(SecondaryList))
    ELSE IF TEST_SKU # <<>> THEN FindCalls(<<TEST_SKU>>)
    ELSE ListCall(BATCH_SIZE)

\* C9 amended, for the list-based draft: with the flag a full scan (limit 0); else
\* with a non-empty file list one lookup per SKU of the file, else with a non-empty
\* secondary list one lookup per SKU of it, in both cases with the priority SKU, if
\* configured, taken out of the list and looked up first; else, with both lists
\* empty, a lookup of the priority SKU alone if one is configured, and a scan
\* bounded by the batch size only if none is.  The run makes these calls in this
\* order and no others.
C9_PlanPrecedence ==
    env.draft = "A"
    => /\ IsPrefix(scanCalls, C9_Plan)
       /\ finished => scanCalls = C9_Plan

\* C9 witness: a finished run with the flag unset, both list sources empty and a
\* priority SKU: its plan was the lookup of that SKU, not a bounded scan.
C9_Witness ==
    /\ finished
    /\ env.draft = "A"
    /\ ~FULL_SYNC
    /\ readSkuListFile = <<>>
    /\ SecondaryList = <<>>
    /\ TEST_SKU # <<>>
    /\ scanCalls = FindCalls(<<TEST_SKU>>)
    /\ Len(calls) > 0

\* C10: with FULL_SYNC true every scan is made with limit 0, no SKU of a list is
\* looked up (the list-based draft makes no lookup at all, the other draft only the
\* one of its priority SKU, first), and a run that completes made one scan and
\* handed every variant of the catalog to processVariantEntry, each once.
C10_FullSyncScansAll ==
    FULL_SYNC
    => /\ \A i \in 1..Len(scanCalls) :
            /\ scanCalls[i].fn = "list" => scanCalls[i].limit = Num(0)
            /\ scanCalls[i].fn = "find" =>
                  /\ env.draft = "B"
                  /\ i = 1
                  /\ scanCalls[i].target = TEST_SKU
       /\ finished =>
            /\ Cardinality({i \in 1..Len(scanCalls) : scanCalls[i].fn = "list"}) = 1
            /\ Len(calls) = Len(AllEntries)
            /\ SeqRange(calls) = SeqRange(VariantIds(AllEntries))

\* C10 witness: a finished full run of the list-based draft that was given a SKU
\* list and a batch size of 2 and processed more than 2 entries.
C10_Witness ==
    /\ finished
    /\ FULL_SYNC
    /\ env.draft = "A"
    /\ Len(sourceSkuList) > 0
    /\ BATCH_SIZE = Num(2)
    /\ Len(calls) > 2

\* ------------------------------------------------------------------------
\* The resolution of the SKU list (main of draft A, lines 171-185) on its own
\* ------------------------------------------------------------------------

SkuNames == {<<"A">>, <<"B">>, <<"C">>}

SuppliedLists == UNION { [1..k -> SkuNames] : k \in 0..MaxListLen }

\* the text of a list: its items, each followed by sep but the last
RECURSIVE JoinWith(_, _)
JoinWith(list, sep) ==
    IF list = <<>> THEN <<>>
    ELSE IF Len(list) = 1 THEN Head(list)
    ELSE Head(list) \o <<sep>> \o JoinWith(Tail(list), sep)

\* environments of the list-based draft: SKU_LIST holds a supplied list (after a
\* blank), sku_list.txt is absent or holds C and B, TEST_SKU is unset, A or " B "
ListEnvironments ==
    { [draft |-> "A", creds |-> TRUE, FULL_SYNC |-> Null, BATCH_SIZE |-> Null,
       TEST_SKU |-> t, file |-> f,
       SKU_LIST |-> IF l = <<>> THEN <<>> ELSE <<" ">> \o JoinWith(l, ",")] :
        t \in {Null, <<"A">>, <<" ", "B", " ">>},
        f \in {Null, <<"C", "\n", "B">>},
        l \in SuppliedLists }

InitSkuList ==
    /\ env \in ListEnvironments
    /\ catalog = <<>>
    /\ InitRun
    /\ probe = NoProbe

\* lines 171-185 of main: skuList is chosen and TEST_SKU put first
ResolveSkuList ==
    /\ probe = NoProbe
    /\ probe' = [fn |-> "skuList", result |-> skuList]
    /\ UNCHANGED <<env, catalog, runVars>>

NextSkuList == ResolveSkuList

SpecSkuList == InitSkuList /\ [][NextSkuList]_vars

\* how often x occurs in xs
Count(xs, x) == Cardinality({i \in 1..Len(xs) : xs[i] = x})

\* C11: with a priority SKU configured, the resolved list holds it once, at the
\* first position, and after it the SKUs of the supplied list other than the
\* priority SKU, in the order of the supplied list; this whether the supplied list
\* holds the priority SKU not at all, once or several times.
C11_PriorityOnceAndFirst ==
    probe.fn = "skuList" /\ TEST_SKU # <<>>
    => /\ Len(probe.result) >= 1
       /\ probe.result[1] = TEST_SKU
       /\ Count(probe.result, TEST_SKU) = 1
       /\ Tail(probe.result) = SelectSeq(sourceSkuList, LAMBDA x : x # TEST_SKU)
       /\ Len(probe.result) = 1 + Len(sourceSkuList) - Count(sourceSkuList, TEST_SKU)

\* C11 witness: the supplied list held the priority SKU twice, with another SKU
\* between, and was resolved.
C11_Witness ==
    /\ probe.fn = "skuList"
    /\ TEST_SKU = <<"B">>
    /\ sourceSkuList = <<TEST_SKU, <<"A">>, TEST_SKU>>
    /\ probe.result = <<TEST_SKU, <<"A">>>>

\* C12 as stated: in a run with a priority SKU that matches a catalog variant, the
\* first marketplace fetch is for the priority SKU, in every mode.
C12_PriorityFetchedFirst ==
    TEST_SKU # <<>> /\ MatchesOf(TEST_SKU) # <<>> /\ fetchLog # <<>>
    => fetchLog[1].sku = TEST_SKU

\* ------------------------------------------------------------------------
\* needsUpdate (lines 92-98) on its own
\* ------------------------------------------------------------------------

\* storefront prices, in thousandths: 0, below 1, 1, above 1, negative
ShopPriceValues == {0, 200, 500, 999, 1000, 1200, 2000, 0 - 500, 0 - 2000}

\* a storefront price and a marketplace price at most MaxDelta thousandths off it;
\* the storefront gives its price as a string, the marketplace as a number
PricePairs ==
    { [fn |-> "prices", s |-> sv, m |-> sv + d, shopPrice |-> NumToString(sv)] :
        sv \in ShopPriceValues, d \in (0 - MaxDelta)..MaxDelta }

InitNeedsUpdate ==
    /\ env \in {e \in Environments : ~e.creds}
    /\ catalog = <<>>
    /\ InitRun
    /\ probe \in PricePairs

\* needsUpdate(v.price, mlPrice) is called
CallNeedsUpdate ==
    /\ probe.fn = "prices"
    /\ probe' = [fn |-> "needsUpdate", s |-> probe.s, m |-> probe.m,
                 result |-> needsUpdate(probe.shopPrice, JsNumber(probe.m))]
    /\ UNCHANGED <<env, catalog, runVars>>

NextNeedsUpdate == CallNeedsUpdate

SpecNeedsUpdate == InitNeedsUpdate /\ [][NextNeedsUpdate]_vars

\* C13 as stated: for prices s >= 0 and m >= 0, needsUpdate is true iff
\* |m - s| / max(s, 1) > 0.01 (pairs whose quotient is 0.01 exactly are left out:
\* there the rounding of the division decides).
C13_FloorOfOne ==
    probe.fn = "needsUpdate" /\ probe.s >= 0 /\ probe.m >= 0
    => LET den == IF probe.s < Scale THEN Scale ELSE probe.s
           dif == 100 * Abs(probe.m - probe.s)
       IN  dif # den => (probe.result <=> dif > den)

\* C13 amended: needsUpdate is true iff |m - s| / d > 0.01, where d is s itself for
\* every s other than 0 and 1 for s = 0; so for 0 < s < 1 the difference is taken
\* relative to s, and for a negative s the result is false (pairs whose quotient
\* is 0.01 exactly are left out: there the rounding of the division decides).
C13_RelativeToShopPrice ==
    probe.fn = "needsUpdate"
    => LET den == IF probe.s = 0 THEN Scale ELSE probe.s
           dif == 100 * Abs(probe.m - probe.s)
       IN  IF probe.s < 0 THEN ~probe.result
           ELSE dif # den => (probe.result <=> dif > den)

\* C13 witness: a storefront price between 0 and 1 and a marketplace price less than
\* 0.01 off it, for which needsUpdate is true.
C13_Witness ==
    /\ probe.fn = "needsUpdate"
    /\ probe.s > 0
    /\ probe.s < Scale
    /\ 100 * Abs(probe.m - probe.s) < Scale
    /\ probe.result

\* ------------------------------------------------------------------------
\* listVariantsBatch (lines 71-90) on its own, every page read succeeding
\* ------------------------------------------------------------------------

InitList ==
    /\ env \in {e \in Environments : e.creds /\ e.draft = "A" /\ e.FULL_SYNC = Null
                                     /\ e.TEST_SKU = Null /\ e.BATCH_SIZE = Null
                                     /\ e.file = Null /\ e.SKU_LIST = Null}
    /\ catalog \in Catalogs
    /\ InitRun
    /\ probe \in {[fn |-> "limit", limit |-> l] : l \in 0..MaxLimit}

\* listVariantsBatch(limit) is called
CallListVariantsBatch ==
    /\ pc = "start"
    /\ probe.fn = "limit"
    /\ probe' = [fn |-> "listVariantsBatch", limit |-> probe.limit]
    /\ phase' = "batch"
    /\ CallList(Num(probe.limit))
    /\ UNCHANGED <<env, catalog, skuIdx, work, idx, cur, mlQueue, shopifyQueue, mlInFlight,
                   putInFlight, now, exitCode, finished, readFailed, calls, fetchLog,
                   recentStarts, writeLog, reads, last, reply>>

NextList ==
    \/ CallListVariantsBatch
    \/ ScanLoop
    \/ GetOk

SpecList == InitList /\ [][NextList]_vars

\* the variants of the products with an id up to cursor, counted
VariantsUpTo(cursor) ==
    Len(Flatten(SelectSeq(catalog, LAMBDA p : p.id <= cursor)))

\* C14: listVariantsBatch(limit) requests its first page with cursor 0 and each
\* later page with the id of the last product of the page before, which was a full
\* page; with a limit L > 0 it requests a page only while fewer than L variants were
\* collected; and it returns, in catalog order, every variant of the catalog for
\* limit 0 and the first min(L, total) variants for a limit L > 0, after a page that
\* was not full or, for L > 0, once L variants are collected.
C14_ScanInCatalogOrder ==
    probe.fn = "listVariantsBatch"
    => /\ \A i \in 1..Len(reads) :
            /\ i = 1 => reads[i].since_id = 0
            /\ i > 1 =>
                 LET before == Page(reads[i - 1].since_id)
                 IN  /\ Len(before) = PageSize
                     /\ reads[i].since_id = before[Len(before)].id
            /\ probe.limit > 0 => VariantsUpTo(reads[i].since_id) < probe.limit
       /\ pc = "entries" =>
            /\ work = IF probe.limit = 0 THEN AllEntries ELSE Take(AllEntries, probe.limit)
            /\ Len(reads) >= 1
            /\ \/ Len(Page(reads[Len(reads)].since_id)) < PageSize
               \/ probe.limit > 0 /\ Len(work) = probe.limit

\* C14 witness: a scan with limit 3 over a catalog of more than 3 variants on more
\* than one page returned 3 entries after one page request.
C14_Witness ==
    /\ probe.fn = "listVariantsBatch"
    /\ pc = "entries"
    /\ probe.limit = 3
    /\ Len(AllEntries) > 3
    /\ Len(catalog) > PageSize
    /\ Len(work) = 3
    /\ Len(reads) = 1

\* the answer the flow has just received is a price that calls for an update
UpdateCalledFor ==
    /\ reply'.status = 200
    /\ reply'.hasPrice
    /\ needsUpdate(cur.shopPrice, reply'.price)

\* C15: per call of processVariantEntry, one fetch task at most is submitted, at the
\* start of the call; a write task is submitted exactly when the fetch is answered
\* 200 with a price for which needsUpdate is true, in the step that handles the
\* answer (the fetch has completed, nothing is left in mlQueue), for the entry's
\* variant id and with a price string that reads back as the fetched price; a 200
\* without price or with needsUpdate false submits nothing and ends the entry as a
\* no-op; a write task is submitted in no other step; each PUT sent is the task
\* submitted for the current entry; and so there are never more fetches than
\* calls nor more writes than fetches.
C15_SingleShotPipeline ==
    /\ [][FetchAnswered =>
            IF UpdateCalledFor
            THEN /\ Len(shopifyQueue'.queue) = Len(shopifyQueue.queue) + 1
                 /\ LET task == shopifyQueue'.queue[Len(shopifyQueue'.queue)]
                    IN  /\ task.id = cur.id
                        /\ reply'.price.num
                        /\ ParseFloat(task.price) = Num(reply'.price.val)
                 /\ pc' = "awaitWrite"
                 /\ IsIdle(mlQueue')
            ELSE /\ shopifyQueue' = shopifyQueue
                 /\ writeLog' = writeLog
                 /\ reply'.status = 200 =>
                       /\ pc' = "entries"
                       /\ idx' = idx + 1
                       /\ last'.id = cur.id
                       /\ last'.state = IF ~reply'.hasPrice THEN "NoPriceAvailable"
                                        ELSE "NoChange"]_vars
    /\ [][Len(shopifyQueue'.queue) > Len(shopifyQueue.queue) => FetchAnswered]_vars
    /\ [][Len(mlQueue'.queue) > Len(mlQueue.queue) =>
            /\ pc = "entries"
            /\ pc' = "awaitFetch"
            /\ calls' = Append(calls, cur'.id)
            /\ mlQueue'.queue = <<[id |-> cur'.id, sku |-> cur'.sku]>>]_vars
    /\ [][writeLog' # writeLog =>
            /\ pc = "awaitWrite"
            /\ shopifyQueue.queue # <<>>
            /\ Len(writeLog') = Len(writeLog) + 1
            /\ writeLog'[Len(writeLog')].id = cur.id
            /\ writeLog'[Len(writeLog')].id = Head(shopifyQueue.queue).id
            /\ writeLog'[Len(writeLog')].price = Head(shopifyQueue.queue).price]_vars
    /\ [](/\ Len(fetchLog) + Len(mlQueue.queue) <= Len(calls)
          /\ Len(writeLog) + Len(shopifyQueue.queue) <= Len(fetchLog))

\* C15 witness: the fetch for a variant priced 100.00 was answered with the price
\* 105, and the PUT for that variant is out with the price "105".
C15_Witness ==
    /\ pc = "awaitWrite"
    /\ cur.shopPrice = <<"1", "0", "0", ".", "0", "0">>
    /\ reply.from = "ml"
    /\ reply.hasPrice
    /\ reply.price = JsNumber(105000)
    /\ cur.id \in putInFlight
    /\ writeLog # <<>>
    /\ writeLog[Len(writeLog)].id = cur.id
    /\ writeLog[Len(writeLog)].price = <<"1", "0", "5">>

\* C16: when the fetch is answered 200 with a price and the variant's price or the
\* fetched price does not parse as a number, needsUpdate is false, no write task is
\* queued, no PUT is sent, and the entry ends there as a no-op (NoChange), the loop
\* going on with the next entry.
C16_UnparsablePriceIsNoOp ==
    [][/\ FetchAnswered
       /\ reply'.status = 200
       /\ reply'.hasPrice
       /\ ParseFloat(cur.shopPrice).nan \/ ParseFloat(ToStr(reply'.price)).nan
       => /\ ~needsUpdate(cur.shopPrice, reply'.price)
          /\ shopifyQueue' = shopifyQueue
          /\ putInFlight' = putInFlight
          /\ writeLog' = writeLog
          /\ pc' = "entries"
          /\ idx' = idx + 1
          /\ last' = [id |-> cur.id, state |-> "NoChange"]]_vars

\* C16 witness: the marketplace answered with a price that is no number for a
\* variant whose own price is a number, and the entry ended as NoChange.
C16_Witness ==
    /\ pc = "entries"
    /\ reply.from = "ml"
    /\ reply.status = 200
    /\ reply.hasPrice
    /\ ~reply.price.num
    /\ ParseFloat(reply.price.str).nan
    /\ last.state = "NoChange"
    /\ \E e \in SeqRange(AllEntries) :
          e.variant.id = last.id /\ ~ParseFloat(e.variant.price).nan

\* ------------------------------------------------------------------------
\* Explicit-list mode on its own: draft A started with an SKU_LIST and nothing else
\* ------------------------------------------------------------------------

\* lists whose SKUs differ from the catalog's in case only ("a", against "A"), match
\* nothing ("C"), or match two variants of two products ("B")
LookupLists == {<<"a", ",", "B">>, <<"C", ",", "A">>}

LookupEnvironments ==
    { [draft |-> "A", creds |-> TRUE, FULL_SYNC |-> Null, TEST_SKU |-> Null,
       BATCH_SIZE |-> <<"1">>, file |-> Null, SKU_LIST |-> l] : l \in LookupLists }

InitLookup ==
    /\ env \in LookupEnvironments
    /\ catalog \in Catalogs
    /\ InitRun
    /\ probe = NoProbe

SpecLookup == InitLookup /\ [][Next]_vars

\* the number of pages a scan of the whole catalog reads: the full pages and the
\* short or empty page that ends it
PagesOfCatalog == (Len(catalog) \div PageSize) + 1

FindReads == SelectSeq(reads, LAMBDA r : r.fn = "find")

\* the entries of the whole catalog whose SKU, trimmed, is exactly the target
ExactMatches(target) ==
    SelectSeq(AllEntries, LAMBDA e : Trim(OrEmpty(e.variant.sku)) = target)

RECURSIVE ExactMatchesOfAll(_)
ExactMatchesOfAll(skus) ==
    IF skus = <<>> THEN <<>>
    ELSE ExactMatches(Head(skus)) \o ExactMatchesOfAll(Tail(skus))

\* C17: in explicit-list mode each lookup reads every page of the catalog, whatever
\* BATCH_SIZE says, and returns exactly the entries whose trimmed SKU equals the
\* target character for character, in catalog order; the k-th lookup is for the
\* k-th SKU of the list and starts only when every match of the SKUs before it has
\* been processed, in that order; a SKU without a match adds no fetch and no write
\* and the loop goes on with the next SKU.
C17_TargetedLookup ==
    /\ [][pc' = "entries" /\ pc \in {"scan", "get"} =>
            /\ scan.fn = "find"
            /\ work' = ExactMatches(scan.target)
            /\ idx' = 1
            /\ Len(FindReads') = Len(scanCalls') * PagesOfCatalog]_vars
    /\ [][scanCalls' # scanCalls =>
            /\ Len(scanCalls') = Len(scanCalls) + 1
            /\ scanCalls'[Len(scanCalls')].fn = "find"
            /\ scanCalls'[Len(scanCalls')].target = skuList[Len(scanCalls')]
            /\ calls = VariantIds(ExactMatchesOfAll(Take(skuList, Len(scanCalls))))
            /\ mlQueue.queue = <<>> /\ mlInFlight = {}
            /\ shopifyQueue.queue = <<>> /\ putInFlight = {}]_vars
    /\ [][pc' = "entries" /\ pc \in {"scan", "get"} /\ ExactMatches(scan.target) = <<>> =>
            /\ work' = <<>>
            /\ calls' = calls /\ fetchLog' = fetchLog /\ writeLog' = writeLog]_vars
    /\ [][pc = "entries" /\ phase = "skus" /\ work = <<>> =>
            /\ calls' = calls /\ fetchLog' = fetchLog /\ writeLog' = writeLog
            /\ pc' # pc => pc' = "skus" /\ skuIdx' = skuIdx + 1]_vars
    /\ [](finished => calls = VariantIds(ExactMatchesOfAll(skuList)))

\* C17 witness: the list is "a,B" over the three-product catalog; the lookup of
\* "a" found nothing although a variant has the SKU "A", and the run went on to
\* look "B" up and finished having processed the two variants whose trimmed SKU
\* is "B", one per product, with BATCH_SIZE 1.
C17_Witness ==
    /\ finished
    /\ skuList = <<<<"a">>, <<"B">>>>
    /\ Len(catalog) = 3
    /\ Len(scanCalls) = 2
    /\ ExactMatches(<<"a">>) = <<>>
    /\ ExactMatches(<<"A">>) # <<>>
    /\ calls = <<202, 301>>
    /\ Len(fetchLog) = 2

\* ------------------------------------------------------------------------
\* Termination: the run under a scheduler that lets every pending step happen
\* ------------------------------------------------------------------------

\* the clock moves only while something waits for it: a sleep that has not run
\* out, a request within its latency, a fetch the rate window holds back
TickLive ==
    /\ now < LiveMaxTime
    /\ \/ pc = "sleep" /\ (now - cur.slept) * 1000 < cur.wait
       \/ \E task \in mlInFlight : now - task.at < MaxLatency
       \/ mlQueue.queue # <<>> /\ ~IntervalAllows
    /\ now' = now + 1
    /\ recentStarts' = SelectSeq(recentStarts, LAMBDA t : now + 1 - t < IntervalSec)
    /\ UNCHANGED <<probe, env, catalog, pc, phase, skuIdx, scan, work, idx, cur, mlQueue,
                   shopifyQueue, mlInFlight, putInFlight, exitCode, finished, readFailed,
                   calls, fetchLog, writeLog, reads, scanCalls, last, reply>>

\* one answer of every kind the marketplace may give
LiveResponses ==
    { r \in MlResponses : /\ r.price \in {JsNumber(0), JsNumber(105000)}
                          /\ r.retry \in {Null, <<"2">>} }

NextLive ==
    \/ Start
    \/ SkusLoop
    \/ ScanLoop
    \/ GetOk
    \/ GetFail
    \/ EntriesLoop
    \/ mlQueueNext
    \/ \E r \in LiveResponses : MlRespond(r)
    \/ SleepDone
    \/ shopifyQueueNext
    \/ \E ok \in BOOLEAN : PutRespond(ok)
    \/ OnIdle
    \/ Catch
    \/ TickLive

\* the run never stops while a step is pending: every storefront and marketplace
\* call is answered, every timer fires, the rate window reopens as the clock moves,
\* and the event loop runs every continuation that is ready
Fairness == WF_vars(NextLive)

\* the modes of a run: the full scan, the bounded scan and the explicit list of
\* draft A, and draft B with its priority SKU before a bounded scan
LiveEnvironments ==
    { e \in Environments :
        /\ e.creds
        /\ e.file = Null
        /\ e.BATCH_SIZE = <<"2">>
        /\ \/ /\ e.draft = "A"
              /\ e.TEST_SKU = Null
              /\ <<e.FULL_SYNC, e.SKU_LIST>> \in
                    { <<<<"T", "r", "u", "e">>, Null>>, <<Null, Null>>,
                      <<Null, <<"B", ",", "A", ",", "B">>>> }
           \/ /\ e.draft = "B"
              /\ e.TEST_SKU # Null
              /\ e.FULL_SYNC = Null }

InitLive ==
    /\ env \in LiveEnvironments
    /\ catalog \in Catalogs
    /\ InitRun
    /\ probe = NoProbe

SpecLive == InitLive /\ [][NextLive]_vars /\ Fairness

\* C18: every run reaches its end state, the completion or the fatal exit.
C18_Terminates == <>(pc = "exited")

\* C18 witness: a full scan over a catalog of exactly one full page has ended in
\* completion: the second read was answered with the empty page, every entry
\* was processed, and the two variants that have a SKU were fetched.
C18_Witness ==
    /\ pc = "exited"
    /\ finished
    /\ env.draft = "A"
    /\ env.FULL_SYNC # Null
    /\ Len(catalog) = PageSize
    /\ Len(reads) = 2
    /\ Page(reads[2].since_id) = <<>>
    /\ calls = VariantIds(AllEntries)
    /\ Len(fetchLog) = 2

\* the tasks a queue holds, buffered or running
TasksOf(q) == Len(q.queue) + q.pending

\* C19: at most one task is buffered or running in mlQueue and shopifyQueue
\* together, and at most one request is unanswered; whatever is buffered, running
\* or unanswered belongs to the entry processVariantEntry was last called for, so
\* the write of an entry is over before the fetch of the next one is submitted;
\* and while the flow sleeps after a 429 both queues are empty and the sleeping
\* entry is still the last one processVariantEntry was called for.
C19_StrictlySequential ==
    /\ TasksOf(mlQueue) + TasksOf(shopifyQueue) <= 1
    /\ Cardinality(mlInFlight) + Cardinality(putInFlight) <= 1
    /\ TasksOf(mlQueue) = 1 => /\ pc = "awaitFetch"
                               /\ calls # <<>> /\ calls[Len(calls)] = cur.id
                               /\ \A t \in SeqRange(mlQueue.queue) : t.id = cur.id
                               /\ \A t \in mlInFlight : t.id = cur.id
    /\ TasksOf(shopifyQueue) = 1 => /\ pc = "awaitWrite"
                                    /\ calls # <<>> /\ calls[Len(calls)] = cur.id
                                    /\ \A t \in SeqRange(shopifyQueue.queue) : t.id = cur.id
                                    /\ putInFlight \subseteq {cur.id}
    /\ TasksOf(mlQueue) = 0 => mlInFlight = {}
    /\ TasksOf(shopifyQueue) = 0 => putInFlight = {}
    /\ pc = "sleep" => /\ TasksOf(mlQueue) + TasksOf(shopifyQueue) = 0
                       /\ calls # <<>> /\ calls[Len(calls)] = cur.id
    /\ pc \in {"awaitFetch", "awaitWrite", "sleep"} => idx <= Len(work) /\ work[idx].variant.id = cur.id

\* C19 witness: the PUT of the second written entry is unanswered; the first
\* write is in the log, answered, and nothing else is buffered or running.
C19_Witness ==
    /\ pc = "awaitWrite"
    /\ Len(writeLog) = 2
    /\ writeLog[1].id # writeLog[2].id
    /\ putInFlight = {writeLog[2].id}
    /\ TasksOf(mlQueue) = 0
    /\ TasksOf(shopifyQueue) = 1

\* the supplied SKU list repeats no SKU other than the priority identifier
NoRepeatedSku ==
    \A i, j \in 1..Len(sourceSkuList) :
        i # j /\ sourceSkuList[i] = sourceSkuList[j] => sourceSkuList[i] = TEST_SKU

\* C20: no variant is handed to fetchMlItem twice in a run, and processVariantEntry
\* is called at most once for a variant, unless the supplied list repeats a SKU
\* that is not the priority identifier.
C20_NoVariantFetchedTwice ==
    \/ /\ Cardinality({fetchLog[i].id : i \in 1..Len(fetchLog)}) = Len(fetchLog)
       /\ Cardinality(SeqRange(calls)) = Len(calls)
    \/ ~NoRepeatedSku

\* C20 witness: draft A with TEST_SKU " B" and the list "B,A,B" has finished over
\* the three-product catalog: both variants with the SKU B, then the one with the
\* SKU A, were fetched once each.
C20_Witness ==
    /\ finished
    /\ env.draft = "A"
    /\ TEST_SKU = <<"B">>
    /\ sourceSkuList = <<<<"B">>, <<"A">>, <<"B">>>>
    /\ skuList = <<<<"B">>, <<"A">>>>
    /\ [i \in 1..Len(fetchLog) |-> fetchLog[i].id] = <<202, 301, 101>>

====
